---- MODULE Spec2Model ----
(***************************************************************************)
(* A model of bwypy/core.py: the process-wide options (set_options), the   *)
(* query object (BWQuery) and the result flattening (BWResults).           *)
(*                                                                         *)
(* Python values are modelled as follows.                                  *)
(*   - None is the empty sequence <<>>, any other optional value x is the  *)
(*     one-element sequence <<x>>.                                         *)
(*   - A field name is a sequence of tokens, so that "*" + n + "__id" is   *)
(*     <<"*">> \o n \o <<"__id">> and lstrip("*") drops leading "*".       *)
(*   - A dict is a function; a dict that may lack a key is a function      *)
(*     whose DOMAIN lacks it.                                              *)
(*   - An exception is the name of its class in exc ("none": no exception).*)
(***************************************************************************)
EXTENDS Integers, Sequences, FiniteSets, TLC

VARIABLES
    _globals,     \* module-level _globals: option name -> value
    scopes,       \* the live set_options objects, innermost first: their .old
    pc,           \* "new": no instance yet, "live": constructed, "failed": __init__ raised
    json,         \* BWQuery.json, the working spec
    endpoint,     \* BWQuery.endpoint
    _fields,      \* BWQuery._fields: None or the schema table
    _dtypes,      \* BWQuery._dtypes: name -> type
    _last_good,   \* BWQuery._last_good: None or a copy of json
    call,         \* the operation performed last
    exc,          \* the exception it raised, "none" if it returned
    msg,          \* the names listed in the message of a KeyError
    args,         \* the arguments of the operation performed last
    nSchemaReq,   \* returnPossibleFields requests handed to _fetch by this instance
    nSchemaOk,    \* ... of which answered
    validated,    \* history: json right after the latest successful _validate()
    accepted_,    \* history: json right after the latest successful _validate() or accepted setter
    before,       \* history: _globals right before each live scope was entered
    results,      \* the BWResults under inspection and what tolist() and frame() returned
    _field_cache, \* self._field_cache
    sent,         \* the queries the latest operation handed to _fetch
    http,         \* the HTTP requests the latest operation made, and how each ended
    ret           \* the list the latest operation returned, None if it returned no list

vars == <<_globals, scopes, pc, json, endpoint, _fields, _dtypes, _last_good,
          call, exc, msg, args, nSchemaReq, nSchemaOk, validated, accepted_,
          before, results, _field_cache, sent, http, ret>>

-----------------------------------------------------------------------------
(* Python values *)

None == <<>>
Some(x) == <<x>>

Range(s) == {s[i] : i \in DOMAIN s}

\* dict(pairs): the dict holding the key/value pairs
Dict(pairs) == [k \in {p[1] : p \in pairs} |-> (CHOOSE p \in pairs : p[1] = k)[2]]

\* d[k] = v on a dict
SetKey(d, k, v) == [x \in DOMAIN d \cup {k} |-> IF x = k THEN v ELSE d[x]]

\* d1.update(d2)
Update(d1, d2) == [x \in DOMAIN d1 \cup DOMAIN d2 |-> IF x \in DOMAIN d2 THEN d2[x] ELSE d1[x]]

\* Python truthiness of an optional string: None and "" are false
Truthy(v) == v # None /\ v # Some("")

-----------------------------------------------------------------------------
(* Bounds and inputs *)

\* requests for the schema one instance may issue before the model stops it
MaxSchemaReq == 2

\* nesting depth of set_options scopes
MaxScopes == 2

\* the largest count a response holds
MaxCount == 1

Databases == {"db1", "db2"}

\* names
nA == <<"a">>
nB == <<"b">>
nZ == <<"zz">>
nWord == <<"word">>
nTextCount == <<"TextCount">>
nWordCount == <<"WordCount">>
Star(n) == <<"*">> \o n
Id(n) == n \o <<"__id">>

\* the server's answer to returnPossibleFields for a database
ServerFields(db) ==
    IF db = "db1"
    THEN << [name |-> nA, type |-> "character"], [name |-> nB, type |-> "integer"] >>
    ELSE << [name |-> nA, type |-> "character"] >>

\* constraints of a search limit: a bare string, a list, a comparison
cStr == [t |-> "str", v |-> <<"x">>]
cList == [t |-> "list", v |-> <<"x">>]
cCmp == [t |-> "cmp", v |-> <<"$lt", "5">>]

GroupValues ==
    { <<Star(nA), Id(nB), Star(Id(nB)), nA>>,
      <<nA, nZ, Star(nWord), nZ>> }

LimitValues ==
    { Dict({<<nA, cCmp>>, <<Id(nB), cCmp>>, <<nWord, cList>>}),
      Dict({<<nWord, cStr>>}),
      Dict({<<nZ, cCmp>>, <<Star(nA), cCmp>>, <<nWord, cStr>>}) }

CounttypeValues == { <<nTextCount, nWordCount>>, <<nTextCount>> }

-----------------------------------------------------------------------------
(* set_options *)

\* set_options.__init__ (and __enter__, which does nothing): keep a copy of
\* _globals in self.old and install the overrides
set_options_init(g, kwargs) == [old |-> g, globals |-> Update(g, kwargs)]

\* mutant: __exit__ putting the old values back without clearing first
set_options_exit_no_clear(g, old) == Update(g, old)

\* set_options.__exit__: _globals.clear(); _globals.update(self.old)
set_options_exit(g, old) == Update(Dict({}), old)

-----------------------------------------------------------------------------
(* BWQuery *)

\* BWQuery.default
default ==
    [ search_limits |-> Dict({}),
      words_collation |-> "Case_Sensitive",
      method |-> "data",
      format |-> "json",
      counttype |-> <<nTextCount, nWordCount>>,
      groups |-> <<>> ]

NoArgs ==
    [ groups |-> <<>>, limits |-> Dict({}), raw |-> None, endpoint |-> None,
      database |-> None, field |-> None, max |-> None ]

Returned == [exc |-> "none", msg |-> {}]
Raised(e, names) == [exc |-> e, msg |-> names]

\* _fetch: urlopen, whose answer is decoded through the undefined name jsonlob
\* (a NameError the bare except swallows), then requests.get, whose failure
\* propagates.  net.primary and net.alt say whether each HTTP request succeeds.
_fetch(net) ==
    [ exc |-> IF net.alt THEN "none" ELSE "TransportError",
      http |-> << [client |-> "urlopen", ok |-> net.primary],
                  [client |-> "requests.get", ok |-> net.alt] >> ]

Nets == [primary : BOOLEAN, alt : BOOLEAN]

\* self._fields['name'].tolist()
FieldNames(flds) == [i \in DOMAIN flds[1] |-> flds[1][i].name]

\* np.setdiff1d(ar1, ar2): the unique values of ar1 that are not in ar2
setdiff1d(ar1, ar2) == {x \in Range(ar1) : x \notin Range(ar2)}

\* the list the keys of a dict are handed over as (list(value.keys()))
KeyList(d) ==
    LET RECURSIVE Enum(_)
        Enum(S) == IF S = {} THEN <<>>
                   ELSE LET x == CHOOSE y \in S : TRUE IN <<x>> \o Enum(S \ {x})
    IN Enum(DOMAIN d)

_validate_groups(flds, value) ==
    IF flds # None
    THEN LET names == FieldNames(flds)
             accepted == names
                         \o [i \in DOMAIN names |-> Id(names[i])]
                         \o [i \in DOMAIN names |-> Star(names[i])]
                         \o [i \in DOMAIN names |-> Id(Star(names[i]))]
             badgroups == setdiff1d(value, accepted)
         IN IF Cardinality(badgroups) > 0 THEN Raised("KeyError", badgroups) ELSE Returned
    ELSE Returned

\* mutant: the word check done only when the schema is known
_validate_search_limits_word_in_schema_branch(flds, value) ==
    IF flds # None
    THEN LET nm == FieldNames(flds)
             accepted == nm \o [i \in DOMAIN nm |-> Id(nm[i])] \o <<nWord>>
             badgroups == setdiff1d(KeyList(value), accepted)
         IN IF Cardinality(badgroups) > 0 THEN Raised("KeyError", badgroups)
            ELSE IF nWord \in DOMAIN value /\ value[nWord].t # "list"
                 THEN Raised("TypeError", {})
                 ELSE Returned
    ELSE Returned

\* mutant: the accepted list of _validate_groups reused for search_limits
_validate_search_limits_star_forms(flds, value) ==
    LET names == IF flds # None
                 THEN LET nm == FieldNames(flds)
                          accepted == nm \o [i \in DOMAIN nm |-> Id(nm[i])]
                                      \o [i \in DOMAIN nm |-> Star(nm[i])]
                                      \o [i \in DOMAIN nm |-> Id(Star(nm[i]))]
                                      \o <<nWord>>
                          badgroups == setdiff1d(KeyList(value), accepted)
                      IN IF Cardinality(badgroups) > 0
                         THEN Raised("KeyError", badgroups) ELSE Returned
                 ELSE Returned
    IN IF names.exc # "none" THEN names
       ELSE IF nWord \in DOMAIN value /\ value[nWord].t # "list"
            THEN Raised("TypeError", {})
            ELSE Returned

_validate_search_limits(flds, value) ==
    LET names == IF flds # None
                 THEN LET nm == FieldNames(flds)
                          accepted == nm \o [i \in DOMAIN nm |-> Id(nm[i])] \o <<nWord>>
                          badgroups == setdiff1d(KeyList(value), accepted)
                      IN IF Cardinality(badgroups) > 0
                         THEN Raised("KeyError", badgroups) ELSE Returned
                 ELSE Returned
    IN IF names.exc # "none" THEN names
       ELSE IF nWord \in DOMAIN value /\ value[nWord].t # "list"
            THEN Raised("TypeError", {})
            ELSE Returned

\* mutant: the groups setter assigning before it validates
groups_setter_assign_first(j, flds, value) ==
    LET r == _validate_groups(flds, value)
    IN [exc |-> r.exc, msg |-> r.msg, json |-> SetKey(j, "groups", value)]

\* the groups setter: validate, then assign
groups_setter(j, flds, value) ==
    LET r == _validate_groups(flds, value)
    IN [ exc |-> r.exc, msg |-> r.msg,
         json |-> IF r.exc = "none" THEN SetKey(j, "groups", value) ELSE j ]

\* the search_limits setter: validate, then assign
search_limits_setter(j, flds, value) ==
    LET r == _validate_search_limits(flds, value)
    IN [ exc |-> r.exc, msg |-> r.msg,
         json |-> IF r.exc = "none" THEN SetKey(j, "search_limits", value) ELSE j ]

\* the search_limits getter
search_limits(j) == IF "search_limits" \in DOMAIN j THEN j.search_limits ELSE Dict({})

\* mutant: _validate re-raising without restoring the snapshot
_validate_no_rollback(j, flds, last_good) ==
    LET j1 == IF j.method \notin {"data"} THEN SetKey(j, "method", "data") ELSE j
        g == _validate_groups(flds, j1.groups)
        r == IF g.exc # "none" THEN g ELSE _validate_search_limits(flds, search_limits(j1))
    IN IF r.exc = "none"
       THEN [exc |-> "none", msg |-> {}, json |-> j1, last_good |-> Some(j1)]
       ELSE [exc |-> r.exc, msg |-> r.msg, json |-> j1, last_good |-> last_good]

\* _validate: pin the method, validate groups then search_limits, snapshot on
\* success, restore the snapshot (when there is one) on failure and re-raise
_validate(j, flds, last_good) ==
    LET j1 == IF j.method \notin {"data"} THEN SetKey(j, "method", "data") ELSE j
        g == _validate_groups(flds, j1.groups)
        r == IF g.exc # "none" THEN g ELSE _validate_search_limits(flds, search_limits(j1))
    IN IF r.exc = "none"
       THEN [exc |-> "none", msg |-> {}, json |-> j1, last_good |-> Some(j1)]
       ELSE [ exc |-> r.exc, msg |-> r.msg,
              json |-> IF last_good # None THEN last_good[1] ELSE j1,
              last_good |-> last_good ]

\* df[['name', 'type']].set_index('name').to_dict()['type']
Dtypes(df) == Dict({<<df[i].name, df[i].type>> : i \in DOMAIN df})

\* the query fields() hands to _fetch
FieldsQuery(j) == [database |-> j.database, method |-> "returnPossibleFields"]

\* mutant: fields() returning the fetched table without keeping it
fields_not_kept(j, flds, dtypes, net) ==
    LET r == _fetch(net)
    IN IF r.exc # "none"
       THEN [exc |-> r.exc, fields |-> flds, dtypes |-> dtypes, req |-> 1, ok |-> 0]
       ELSE [exc |-> "none", fields |-> flds, dtypes |-> dtypes, req |-> 1, ok |-> 1]

\* mutant: fields() fetching on every call
fields_always_fetch(j, flds, dtypes, net) ==
    LET r == _fetch(net)
    IN IF r.exc # "none"
       THEN [exc |-> r.exc, fields |-> flds, dtypes |-> dtypes, req |-> 1, ok |-> 0]
       ELSE LET df == ServerFields(j.database[1])
            IN [ exc |-> "none", fields |-> Some(df), dtypes |-> Dtypes(df),
                 req |-> 1, ok |-> 1 ]

\* fields(): fetch the schema unless it is cached
fields(j, flds, dtypes, net) ==
    IF flds = None
    THEN LET r == _fetch(net)
         IN IF r.exc # "none"
            THEN [exc |-> r.exc, fields |-> flds, dtypes |-> dtypes, req |-> 1, ok |-> 0]
            ELSE LET df == ServerFields(j.database[1])
                 IN [ exc |-> "none", fields |-> Some(df), dtypes |-> Dtypes(df),
                      req |-> 1, ok |-> 1 ]
    ELSE [exc |-> "none", fields |-> flds, dtypes |-> dtypes, req |-> 0, ok |-> 0]

\* __init__: the attributes of the new instance and the exception raised, if any
__init__(g, raw, ep, db, verify_fields, net) ==
    LET j0 == IF raw # None /\ DOMAIN raw[1] # {} THEN raw[1] ELSE default
        ep1 == IF Truthy(ep) THEN ep
               ELSE IF "endpoint" \in DOMAIN g THEN g.endpoint ELSE None
        j1 == IF Truthy(db) THEN SetKey(j0, "database", db)
              ELSE IF "database" \notin DOMAIN j0 /\ "database" \in DOMAIN g
                   THEN SetKey(j0, "database", g.database)
                   ELSE j0
        new == [ exc |-> "none", msg |-> {}, json |-> j0, endpoint |-> None,
                 fields |-> None, dtypes |-> Dict({}), last_good |-> None,
                 req |-> 0, ok |-> 0 ]
    IN IF ~Truthy(ep) /\ "endpoint" \notin DOMAIN g
       THEN [new EXCEPT !.exc = "NameError"]
       ELSE IF "database" \notin DOMAIN j1
       THEN [new EXCEPT !.exc = "KeyError", !.msg = {<<"database">>}, !.endpoint = ep1]
       ELSE IF ~Truthy(j1.database)
       THEN [new EXCEPT !.exc = "NameError", !.json = j1, !.endpoint = ep1]
       ELSE LET f == IF verify_fields THEN fields(j1, None, Dict({}), net)
                     ELSE [ exc |-> "none", fields |-> None, dtypes |-> Dict({}),
                            req |-> 0, ok |-> 0 ]
                v == _validate(j1, f.fields, None)
            IN IF f.exc # "none"
               THEN [new EXCEPT !.exc = f.exc, !.json = j1, !.endpoint = ep1,
                                !.req = f.req]
               ELSE [ exc |-> v.exc, msg |-> v.msg, json |-> v.json, endpoint |-> ep1,
                      fields |-> f.fields, dtypes |-> f.dtypes,
                      last_good |-> v.last_good, req |-> f.req, ok |-> f.ok ]

\* mutant: run() dispatching the working spec before validating it
run_fetch_first(j, flds, last_good, net) ==
    LET f == _fetch(net)
        v == _validate(j, flds, last_good)
    IN IF f.exc # "none"
       THEN [ exc |-> f.exc, msg |-> {}, json |-> j, last_good |-> last_good,
              valid |-> FALSE, sent |-> <<j>>, http |-> f.http ]
       ELSE [ exc |-> v.exc, msg |-> v.msg, json |-> v.json, last_good |-> v.last_good,
              valid |-> v.exc = "none", sent |-> <<j>>, http |-> f.http ]

\* run(): what it leaves in the instance, the exception it raises, and the
\* queries and HTTP requests it sends
run(j, flds, last_good, net) ==
    LET v == _validate(j, flds, last_good)
        f == _fetch(net)
    IN IF v.exc # "none"
       THEN [ exc |-> v.exc, msg |-> v.msg, json |-> v.json, last_good |-> v.last_good,
              valid |-> FALSE, sent |-> <<>>, http |-> <<>> ]
       ELSE [ exc |-> f.exc, msg |-> v.msg, json |-> v.json, last_good |-> v.last_good,
              valid |-> TRUE, sent |-> <<v.json>>, http |-> f.http ]

-----------------------------------------------------------------------------
(* The operations on one BWQuery instance *)

\* q = BWQuery(json=raw, endpoint=ep, database=db, verify_fields=verify_fields)
do_init(raw, ep, db, verify_fields, net) ==
    LET r == __init__(_globals, raw, ep, db, verify_fields, net)
    IN /\ pc' = IF r.exc = "none" THEN "live" ELSE "failed"
       /\ json' = r.json
       /\ endpoint' = r.endpoint
       /\ _fields' = r.fields
       /\ _dtypes' = r.dtypes
       /\ _last_good' = r.last_good
       /\ nSchemaReq' = r.req
       /\ nSchemaOk' = r.ok
       /\ call' = "__init__"
       /\ exc' = r.exc
       /\ msg' = r.msg
       /\ args' = [ groups |-> r.json.groups, limits |-> search_limits(r.json),
                    raw |-> raw, endpoint |-> ep, database |-> db,
                    field |-> None, max |-> None ]
       /\ validated' = IF r.exc = "none" THEN Some(r.json) ELSE None
       /\ accepted_' = IF r.exc = "none" THEN Some(r.json) ELSE None
       /\ sent' = IF r.req = 1 THEN <<FieldsQuery(r.json)>> ELSE <<>>
       /\ http' = IF r.req = 1 THEN _fetch(net).http ELSE <<>>
       /\ ret' = None
       /\ _field_cache' = Dict({})
       /\ UNCHANGED <<_globals, scopes, before, results>>

\* q.groups = value
do_set_groups(value) ==
    LET r == groups_setter(json, _fields, value)
    IN /\ pc = "live"
       /\ json' = r.json
       /\ call' = "groups.setter"
       /\ exc' = r.exc
       /\ msg' = r.msg
       /\ args' = [NoArgs EXCEPT !.groups = value]
       /\ accepted_' = IF r.exc = "none" THEN Some(r.json) ELSE accepted_
       /\ sent' = <<>>
       /\ http' = <<>>
       /\ ret' = None
       /\ UNCHANGED _field_cache
       /\ UNCHANGED <<_globals, scopes, before, results, pc, endpoint, _fields,
                      _dtypes, _last_good, nSchemaReq, nSchemaOk, validated>>

\* q.search_limits = value
do_set_search_limits(value) ==
    LET r == search_limits_setter(json, _fields, value)
    IN /\ pc = "live"
       /\ json' = r.json
       /\ call' = "search_limits.setter"
       /\ exc' = r.exc
       /\ msg' = r.msg
       /\ args' = [NoArgs EXCEPT !.limits = value]
       /\ accepted_' = IF r.exc = "none" THEN Some(r.json) ELSE accepted_
       /\ sent' = <<>>
       /\ http' = <<>>
       /\ ret' = None
       /\ UNCHANGED _field_cache
       /\ UNCHANGED <<_globals, scopes, before, results, pc, endpoint, _fields,
                      _dtypes, _last_good, nSchemaReq, nSchemaOk, validated>>

\* q.database = value
do_set_database(value) ==
    /\ pc = "live"
    /\ json' = SetKey(json, "database", Some(value))
    /\ call' = "database.setter"
    /\ exc' = "none"
    /\ msg' = {}
    /\ args' = [NoArgs EXCEPT !.database = Some(value)]
    /\ sent' = <<>>
    /\ http' = <<>>
    /\ ret' = None
    /\ UNCHANGED _field_cache
    /\ UNCHANGED <<_globals, scopes, before, results, pc, endpoint, _fields,
                   _dtypes, _last_good, nSchemaReq, nSchemaOk, validated, accepted_>>

\* q.fields()
do_fields(net) ==
    LET r == fields(json, _fields, _dtypes, net)
    IN /\ pc = "live"
       /\ nSchemaReq + r.req <= MaxSchemaReq
       /\ _fields' = r.fields
       /\ _dtypes' = r.dtypes
       /\ nSchemaReq' = nSchemaReq + r.req
       /\ nSchemaOk' = nSchemaOk + r.ok
       /\ call' = "fields"
       /\ exc' = r.exc
       /\ msg' = {}
       /\ args' = NoArgs
       /\ sent' = IF r.req = 1 THEN <<FieldsQuery(json)>> ELSE <<>>
       /\ http' = IF r.req = 1 THEN _fetch(net).http ELSE <<>>
       /\ ret' = None
       /\ UNCHANGED _field_cache
       /\ UNCHANGED <<_globals, scopes, before, results, pc, json, endpoint,
                      _last_good, validated, accepted_>>

\* q.run(): _validate, _runtime_validate (a no-op), then _fetch(self.json); the
\* BWResults it returns is modelled by do_results below
do_run(net) ==
    LET r == run(json, _fields, _last_good, net)
    IN /\ pc = "live"
       /\ json' = r.json
       /\ _last_good' = r.last_good
       /\ call' = "run"
       /\ exc' = r.exc
       /\ msg' = r.msg
       /\ args' = [NoArgs EXCEPT !.groups = json.groups, !.limits = search_limits(json)]
       /\ validated' = IF r.valid THEN Some(r.json) ELSE validated
       /\ accepted_' = IF r.valid THEN Some(r.json) ELSE accepted_
       /\ sent' = r.sent
       /\ http' = r.http
       /\ ret' = None
       /\ UNCHANGED <<_globals, scopes, before, results, pc, endpoint, _fields,
                      _dtypes, nSchemaReq, nSchemaOk, _field_cache>>

\* the raw specs handed to the constructor of the instance under study
RawSpecs ==
    { None,
      Some(SetKey(default, "groups", <<nZ>>)),
      Some(SetKey(SetKey(default, "method", "search"), "search_limits",
                  Dict({<<nWord, cStr>>}))) }

Init ==
    /\ _globals = Dict({<<"endpoint", Some("http://e1")>>})
    /\ scopes = <<>>
    /\ before = <<>>
    /\ pc = "new"
    /\ json = default
    /\ endpoint = None
    /\ _fields = None
    /\ _dtypes = Dict({})
    /\ _last_good = None
    /\ call = "none"
    /\ exc = "none"
    /\ msg = {}
    /\ args = NoArgs
    /\ nSchemaReq = 0
    /\ nSchemaOk = 0
    /\ validated = None
    /\ accepted_ = None
    /\ results = None
    /\ _field_cache = Dict({})
    /\ sent = <<>>
    /\ http = <<>>
    /\ ret = None

Next ==
    \/ /\ pc = "new"
       /\ \E raw \in RawSpecs, db \in {None, Some("db1")}, vf \in BOOLEAN, net \in Nets :
              do_init(raw, None, db, vf, net)
    \/ \E value \in GroupValues : do_set_groups(value)
    \/ \E value \in LimitValues : do_set_search_limits(value)
    \/ \E value \in Databases : do_set_database(value)
    \/ \E net \in Nets : do_fields(net)
    \/ \E net \in Nets : do_run(net)

Spec == Init /\ [][Next]_vars

-----------------------------------------------------------------------------
(* Claims about the validation of one instance, checked under Spec *)

\* the accepted group names of a schema: n, n__id, *n, *n__id
AcceptedGroups(flds) ==
    UNION { {n, Id(n), Star(n), Star(Id(n))} : n \in Range(FieldNames(flds)) }

\* the accepted search_limits keys of a schema: n, n__id and word
AcceptedLimits(flds) ==
    UNION { {n, Id(n)} : n \in Range(FieldNames(flds)) } \cup {nWord}

BadGroups(flds, value) == Range(value) \ AcceptedGroups(flds)
BadLimits(flds, value) == DOMAIN value \ AcceptedLimits(flds)

WordNotList(value) == nWord \in DOMAIN value /\ value[nWord].t # "list"

\* the operation performed last ran _validate on args.groups and args.limits
FullValidation ==
    \/ call = "run"
    \/ call = "__init__" /\ "database" \in DOMAIN json /\ Truthy(json.database)
                         /\ exc # "TransportError"

\* C1: with the schema known, a setter given a value with a name outside the
\* accepted set raises KeyError and leaves groups and search_limits of the
\* working spec as they were before the call.
C1_RejectedSetterKeepsSpec ==
    [][ ( /\ _fields # None
          /\ \/ call' = "groups.setter" /\ BadGroups(_fields, args'.groups) # {}
             \/ call' = "search_limits.setter" /\ BadLimits(_fields, args'.limits) # {} )
        => ( /\ exc' = "KeyError"
             /\ json'.groups = json.groups
             /\ search_limits(json') = search_limits(json) ) ]_vars

C1_Witness ==
    /\ call = "groups.setter"
    /\ exc = "KeyError"
    /\ _fields # None
    /\ json.groups # <<>>
    /\ json.groups # args.groups

\* C2 as stated: when run() fails validation the working spec equals the spec
\* as it stood after the latest successful validation, an accepted setter
\* assignment counting as one.
C2_RollbackToLatestAccepted ==
    (call = "run" /\ exc \in {"KeyError", "TypeError"}) => Some(json) = accepted_

\* C2 amended: when run() fails validation the working spec equals the spec as
\* it stood right after the latest successful _validate(), that is after
\* construction or after the latest run() that passed validation; an accepted
\* setter assignment takes no snapshot.
C2_RollbackToLatestValidated ==
    (call = "run" /\ exc \in {"KeyError", "TypeError"}) => Some(json) = validated

C2_Witness ==
    /\ call = "run"
    /\ exc \in {"KeyError", "TypeError"}
    /\ Some(json) # accepted_

\* C3: whenever the schema is known, every group name and every search_limits
\* key of the snapshot _last_good is in the accepted set.
C3_SnapshotPassesValidation ==
    (_fields # None /\ _last_good # None)
        => /\ BadGroups(_fields, _last_good[1].groups) = {}
           /\ BadLimits(_fields, search_limits(_last_good[1])) = {}

\* C4 as stated: validating or assigning search_limits raises TypeError exactly
\* when word is present with a value that is not a list.
C4_TypeErrorIffWordNotList ==
    (call = "search_limits.setter" \/ FullValidation)
        => (exc = "TypeError" <=> WordNotList(args.limits))

\* C4 amended: validating or assigning search_limits raises TypeError exactly
\* when word is present with a value that is not a list and the name check
\* that precedes the word check passes (the schema is unknown, or every
\* search_limits key and, in _validate, every group name is accepted);
\* when the name check fails KeyError is raised instead.  Either way a spec
\* with a non-list word is rejected, so the word of a validated spec is a list.
C4_TypeErrorIffWordNotListAndNamesPass ==
    /\ call = "search_limits.setter"
         => /\ exc = "TypeError" <=>
                  /\ WordNotList(args.limits)
                  /\ (_fields = None \/ BadLimits(_fields, args.limits) = {})
            /\ WordNotList(args.limits) => exc \in {"TypeError", "KeyError"}
            /\ ~WordNotList(args.limits) /\ _fields = None => exc = "none"
    /\ FullValidation
         => /\ exc = "TypeError" <=>
                  /\ WordNotList(args.limits)
                  /\ \/ _fields = None
                     \/ /\ BadGroups(_fields, args.groups) = {}
                        /\ BadLimits(_fields, args.limits) = {}
            /\ WordNotList(args.limits) => exc \in {"TypeError", "KeyError"}
    /\ _last_good # None => ~WordNotList(search_limits(_last_good[1]))
    /\ validated # None => ~WordNotList(search_limits(validated[1]))

C4_Witness ==
    /\ call = "search_limits.setter"
    /\ exc = "TypeError"
    /\ _fields = None
    /\ _last_good # None

\* C5: with the schema known, a requested name is rejected exactly when it is
\* outside the accepted set of its kind, and the KeyError names every
\* requested name outside that set.
C5_RejectsExactlyTheNamesOutside ==
    _fields # None =>
        /\ call = "groups.setter"
             => /\ exc = "KeyError" <=> BadGroups(_fields, args.groups) # {}
                /\ exc = "KeyError" => msg = BadGroups(_fields, args.groups)
                /\ exc \in {"none", "KeyError"}
        /\ call = "search_limits.setter"
             => /\ exc = "KeyError" <=> BadLimits(_fields, args.limits) # {}
                /\ exc = "KeyError" => msg = BadLimits(_fields, args.limits)
        /\ FullValidation
             => /\ exc = "KeyError" <=>
                      \/ BadGroups(_fields, args.groups) # {}
                      \/ BadLimits(_fields, args.limits) # {}
                /\ exc = "KeyError" =>
                      msg = IF BadGroups(_fields, args.groups) # {}
                            THEN BadGroups(_fields, args.groups)
                            ELSE BadLimits(_fields, args.limits)

C5_Witness ==
    /\ call = "search_limits.setter"
    /\ exc = "KeyError"
    /\ Star(nA) \in msg
    /\ Cardinality(msg) = 2

\* the name check of the operation performed last found a name to reject
NameRejected == exc = "KeyError" /\ msg # {<<"database">>}

\* the requested names the schema does not accept
Offending ==
    IF call = "groups.setter" THEN BadGroups(_fields, args.groups)
    ELSE IF call = "search_limits.setter" THEN BadLimits(_fields, args.limits)
    ELSE BadGroups(_fields, args.groups) \cup BadLimits(_fields, args.limits)

\* C6: names are checked exactly when a schema has been fetched: before any
\* fetch has succeeded every name is accepted unchecked by the setters, by
\* construction and by run(); after one has, every validation checks them.
C6_CheckedIffSchemaFetched ==
    /\ [](call \in {"groups.setter", "search_limits.setter", "run", "__init__"}
            => /\ nSchemaOk = 0 => ~NameRejected
               /\ nSchemaOk = 0 /\ call = "groups.setter"
                     => exc = "none" /\ json.groups = args.groups
               /\ nSchemaOk > 0 /\ (call \in {"groups.setter", "search_limits.setter"}
                                      \/ FullValidation)
                     => /\ _fields # None
                        /\ NameRejected <=> Offending # {})
    /\ [][nSchemaOk > 0 => nSchemaOk' > 0 /\ _fields' # None]_vars

C6_Witness ==
    /\ call = "run"
    /\ NameRejected
    /\ _last_good # None
    /\ BadGroups(_fields, _last_good[1].groups) # {}

\* C7: once returnPossibleFields has been answered no further such request
\* is sent, and fields() keeps returning the same cached schema.
C7_SchemaFetchedOnce ==
    /\ [](nSchemaOk <= 1)
    /\ [][_fields # None => nSchemaReq' = nSchemaReq /\ _fields' = _fields]_vars

C7_Witness ==
    /\ call = "fields"
    /\ exc = "none"
    /\ nSchemaOk = 1
    /\ json.database = Some("db2")
    /\ _fields = Some(ServerFields("db1"))

-----------------------------------------------------------------------------
(* The process-wide options and construction under them *)

\* the overrides handed to set_options
KwargsValues ==
    { Dict({<<"endpoint", Some("http://e1")>>}),
      Dict({<<"database", Some("db1")>>}),
      Dict({<<"endpoint", Some("http://e2")>>, <<"database", None>>}) }

\* with set_options(**kwargs): the object is built and entered
do_set_options(kwargs) ==
    LET r == set_options_init(_globals, kwargs)
    IN /\ Len(scopes) < MaxScopes
       /\ _globals' = r.globals
       /\ scopes' = <<r.old>> \o scopes
       /\ before' = <<_globals>> \o before
       /\ call' = "set_options"
       /\ exc' = "none"
       /\ msg' = {}
       /\ args' = NoArgs
       /\ UNCHANGED <<_field_cache, sent, http, ret>>
       /\ UNCHANGED <<pc, json, endpoint, _fields, _dtypes, _last_good, nSchemaReq,
                      nSchemaOk, validated, accepted_, results>>

\* the with block is left, normally or by an exception of its body, which
\* __exit__ lets through
do_exit_options(raised) ==
    /\ scopes # <<>>
    /\ _globals' = set_options_exit(_globals, Head(scopes))
    /\ scopes' = Tail(scopes)
    /\ before' = Tail(before)
    /\ call' = "set_options.__exit__"
    /\ exc' = IF raised THEN "Exception" ELSE "none"
    /\ msg' = {}
    /\ args' = NoArgs
    /\ UNCHANGED <<_field_cache, sent, http, ret>>
    /\ UNCHANGED <<pc, json, endpoint, _fields, _dtypes, _last_good, nSchemaReq,
                   nSchemaOk, validated, accepted_, results>>

\* the raw specs handed to the constructor: none, one without and one with a database
ConfigRawSpecs ==
    { None,
      Some(SetKey(default, "groups", <<nA>>)),
      Some(SetKey(default, "database", Some("db2"))) }

InitConfig ==
    /\ _globals = Dict({})
    /\ scopes = <<>>
    /\ before = <<>>
    /\ pc = "new"
    /\ json = default
    /\ endpoint = None
    /\ _fields = None
    /\ _dtypes = Dict({})
    /\ _last_good = None
    /\ call = "none"
    /\ exc = "none"
    /\ msg = {}
    /\ args = NoArgs
    /\ nSchemaReq = 0
    /\ nSchemaOk = 0
    /\ validated = None
    /\ accepted_ = None
    /\ results = None
    /\ _field_cache = Dict({})
    /\ sent = <<>>
    /\ http = <<>>
    /\ ret = None

NextConfig ==
    \/ \E kwargs \in KwargsValues : do_set_options(kwargs)
    \/ \E raised \in BOOLEAN : do_exit_options(raised)
    \/ \E raw \in ConfigRawSpecs, ep \in {None, Some("http://e3")},
          db \in {None, Some("db3")}, net \in Nets :
              do_init(raw, ep, db, FALSE, net)

SpecConfig == InitConfig /\ [][NextConfig]_vars

\* what a construction without explicit endpoint and database resolves to
Resolves(g, raw) ==
    LET r == __init__(g, raw, None, None, FALSE, [primary |-> TRUE, alt |-> TRUE])
    IN [ exc |-> r.exc, endpoint |-> r.endpoint,
         database |-> IF "database" \in DOMAIN r.json THEN r.json.database ELSE None ]

\* C8: when a scope exits, normally or through an exception, _globals (every
\* key, the absent ones too) is what it was right before that scope was
\* entered, and so is what a construction without explicit endpoint and
\* database resolves to.
C8_ExitRestoresGlobals ==
    [][ call' = "set_options.__exit__" /\ Len(scopes') < Len(scopes)
        => /\ _globals' = Head(before)
           /\ DOMAIN _globals' = DOMAIN Head(before)
           /\ \A raw \in ConfigRawSpecs : Resolves(_globals', raw) = Resolves(Head(before), raw) ]_vars

C8_Witness ==
    /\ call = "set_options.__exit__"
    /\ exc = "Exception"
    /\ Len(scopes) = 1
    /\ DOMAIN _globals = {"endpoint"}

\* C9: the database is the explicit argument, else the value of the raw spec,
\* else the process-wide default, and when none of the three supplies one
\* (the endpoint being resolved) construction fails with NameError.
C9_MissingDatabaseIsNameError ==
    ( /\ call = "__init__"
      /\ Truthy(args.endpoint) \/ "endpoint" \in DOMAIN _globals )
    => LET inRaw == args.raw # None /\ "database" \in DOMAIN args.raw[1]
           inGlobals == "database" \in DOMAIN _globals
           resolved == IF Truthy(args.database) THEN args.database
                       ELSE IF inRaw THEN args.raw[1].database
                       ELSE IF inGlobals THEN _globals.database
                       ELSE None
       IN /\ ~Truthy(resolved) => exc = "NameError"
          /\ Truthy(resolved) => exc = "none" /\ json.database = resolved

-----------------------------------------------------------------------------
(* BWResults *)

\* A decoded JSON value of a response: a list of counts or a dict from bucket
\* values to JSON values, its items in the order the server wrote them.
List(vals) == [kind |-> "list", vals |-> vals, items |-> <<>>]
Obj(items) == [kind |-> "dict", vals |-> <<>>, items |-> items]

\* the values of a record: a bucket value (a string) or a count
StrVal(str) == [isnum |-> FALSE, str |-> str, num |-> 0]
NumVal(num) == [isnum |-> TRUE, str |-> "", num |-> num]

\* 'data' in o, for a dict (a key) and for a list of counts (an element)
HasData(o) == o.kind = "dict" /\ \E i \in DOMAIN o.items : o.items[i][1] = "data"

\* o[k] on a dict that has key k
Get(o, k) == (CHOOSE it \in Range(o.items) : it[1] = k)[2]

\* g.lstrip("*")
RECURSIVE lstrip(_)
lstrip(n) == IF n # <<>> /\ Head(n) = "*" THEN lstrip(Tail(n)) ELSE n

\* dict(pairs) on a list of pairs: a later pair replaces an earlier one of the same key
PyDict(pairs) ==
    [ k \in {pairs[i][1] : i \in DOMAIN pairs} |->
        LET last == CHOOSE i \in DOMAIN pairs :
                        /\ pairs[i][1] = k
                        /\ \A j \in DOMAIN pairs : pairs[j][1] = k => j <= i
        IN pairs[last][2] ]

\* BWResults.__init__, for groups and counttype given as lists
BWResults(res, query, dtypes) ==
    [ _json |-> res,
      groups |-> [i \in DOMAIN query.groups |-> lstrip(query.groups[i])],
      counttype |-> query.counttype,
      dtypes |-> dtypes ]

\* _expand: the records, or the exception raised on the way.  With no group
\* left the node is enumerated (the counts of a list, the keys of a dict) and
\* paired with the count types; otherwise its items() are walked in order.
RECURSIVE _expand(_, _, _, _)
_expand(o, grouplist, counttypes, collector) ==
    IF Len(grouplist) = 0
    THEN LET enum == IF o.kind = "list"
                     THEN [i \in DOMAIN o.vals |-> NumVal(o.vals[i])]
                     ELSE [i \in DOMAIN o.items |-> StrVal(o.items[i][1])]
             l == [i \in DOMAIN enum |-> <<counttypes[i], enum[i]>>]
         IN IF Len(enum) > Len(counttypes)
            THEN [exc |-> "IndexError", recs |-> <<>>]
            ELSE [exc |-> "none", recs |-> <<PyDict(collector \o l)>>]
    ELSE IF o.kind # "dict"
    THEN [exc |-> "AttributeError", recs |-> <<>>]
    ELSE LET RECURSIVE Walk(_, _)
             Walk(i, acc) ==
                 IF i > Len(o.items) THEN [exc |-> "none", recs |-> acc]
                 ELSE LET item == <<grouplist[1], StrVal(o.items[i][1])>>
                          sub == _expand(o.items[i][2], Tail(grouplist), counttypes,
                                         collector \o <<item>>)
                      IN IF sub.exc # "none" THEN sub ELSE Walk(i + 1, acc \o sub.recs)
         IN Walk(1, <<>>)

\* tolist
tolist(r) ==
    IF HasData(r._json)
    THEN _expand(Get(r._json, "data"), r.groups, r.counttype, <<>>)
    ELSE _expand(r._json, r.groups, r.counttype, <<>>)

-----------------------------------------------------------------------------
(* The responses and the queries the flattening is studied on *)

BucketValues == {"a1", "data"}

\* the dicts over BucketValues whose values are in S, in every order of the keys
DictsOver(S) ==
    {Obj(<<>>)}
    \cup {Obj(<< <<k, v>> >>) : k \in BucketValues, v \in S}
    \cup {Obj(<< <<k1, v1>>, <<k2, v2>> >>) :
             <<k1, k2>> \in {p \in BucketValues \X BucketValues : p[1] # p[2]},
             <<v1, v2>> \in S \X S}

Leaves(n) == {List(vals) : vals \in [1..n -> 0..MaxCount]}

\* the data of a response: counts, or one or two levels of buckets above them
Responses ==
    Leaves(1) \cup Leaves(2) \cup DictsOver(Leaves(1)) \cup DictsOver(Leaves(2))
    \cup DictsOver(DictsOver(Leaves(1)))

\* the groups of the query that was run
ResultGroups ==
    { <<>>, <<Star(nA)>>, <<nA, Star(Id(nB))>>, <<nA, Star(nA)>>, <<Id(nA), nB>> }

\* r = BWResults(json_response['data'], self.json, self._dtypes), the last line of run()
do_results(data, groups_, counttype_, dtypes) ==
    LET query == SetKey(SetKey(default, "groups", groups_), "counttype", counttype_)
    IN /\ results = None
       /\ results' = Some([obj |-> BWResults(data, query, dtypes), query |-> query,
                            out |-> None, frame |-> None])
       /\ call' = "BWResults"
       /\ UNCHANGED <<_field_cache, sent, http, ret>>
       /\ UNCHANGED <<_globals, scopes, before, pc, json, endpoint, _fields, _dtypes,
                      _last_good, exc, msg, args, nSchemaReq, nSchemaOk, validated,
                      accepted_>>

\* r.tolist()
do_tolist ==
    /\ results # None
    /\ results[1].out = None
    /\ results' = Some([results[1] EXCEPT !.out = Some(tolist(results[1].obj))])
    /\ call' = "tolist"
    /\ UNCHANGED <<_field_cache, sent, http, ret>>
    /\ UNCHANGED <<_globals, scopes, before, pc, json, endpoint, _fields, _dtypes,
                   _last_good, exc, msg, args, nSchemaReq, nSchemaOk, validated,
                   accepted_>>

NextResults ==
    \/ \E data \in Responses, g \in ResultGroups, ct \in CounttypeValues :
           do_results(data, g, ct, Dict({}))
    \/ do_tolist

SpecResults == InitConfig /\ [][NextResults]_vars

\* the response has n levels of buckets above leaves of m counts
RECURSIVE Shaped(_, _, _)
Shaped(o, n, m) ==
    IF n = 0 THEN o.kind = "list" /\ Len(o.vals) = m
    ELSE o.kind = "dict" /\ \A i \in DOMAIN o.items : Shaped(o.items[i][2], n - 1, m)

\* the root-to-leaf paths of a response: the bucket values met and the leaf
RECURSIVE Paths(_)
Paths(o) ==
    IF o.kind = "list" THEN {[keys |-> <<>>, leaf |-> o.vals]}
    ELSE UNION { {[keys |-> <<o.items[i][1]>> \o p.keys, leaf |-> p.leaf] :
                      p \in Paths(o.items[i][2])} : i \in DOMAIN o.items }

\* the record the claim gives a path: group name -> bucket value, count type -> count
RecordOf(p, groups_, counttype_) ==
    [ k \in Range(groups_) \cup Range(counttype_) |->
        IF k \in Range(groups_)
        THEN StrVal(p.keys[CHOOSE i \in DOMAIN groups_ : groups_[i] = k])
        ELSE NumVal(p.leaf[CHOOSE i \in DOMAIN counttype_ : counttype_[i] = k]) ]

Distinct(s) == \A i, j \in DOMAIN s : s[i] = s[j] => i = j

\* C10: for a response as deep as the groups are many (the names of groups and
\* count types distinct), whatever the bucket values, tolist() returns one
\* record per root-to-leaf path, holding the bucket value of every group and
\* the count of every count type.
C10_OneRecordPerPath ==
    (results # None /\ results[1].out # None)
    => LET r == results[1].obj
           out == results[1].out[1]
       IN ( /\ Shaped(r._json, Len(r.groups), Len(r.counttype))
            /\ Distinct(r.groups \o r.counttype) )
          => /\ out.exc = "none"
             /\ Len(out.recs) = Cardinality(Paths(r._json))
             /\ Range(out.recs) = {RecordOf(p, r.groups, r.counttype) : p \in Paths(r._json)}

\* C11: for a query whose groups validation accepts against the schema of db1
\* (names of the forms n, n__id, *n, *n__id) and a response as deep as the
\* groups are many whose leaves hold one count per count type, every record
\* tolist() produces has as many entries as there are groups and count types.
C11_RecordLength ==
    (results # None /\ results[1].out # None)
    => LET r == results[1].obj
           q == results[1].query
           out == results[1].out[1]
       IN ( /\ BadGroups(Some(ServerFields("db1")), q.groups) = {}
            /\ Shaped(r._json, Len(q.groups), Len(q.counttype)) )
          => \A i \in DOMAIN out.recs :
                 Cardinality(DOMAIN out.recs[i]) = Len(q.groups) + Len(q.counttype)

-----------------------------------------------------------------------------
(* Claims about dispatch, checked under Spec *)

\* C16: run() validates before it dispatches.  When validation fails (it raises
\* KeyError or TypeError; with a schema cached, whenever a name lies outside
\* the accepted set) no query is handed to _fetch; when it passes exactly one
\* is, the working spec; a failed transport raises out of run(), which has
\* made no second _fetch call and leaves the working spec as it was.
C16_ValidateBeforeDispatch ==
    /\ [](call = "run" =>
            /\ exc \in {"KeyError", "TypeError"} => sent = <<>> /\ http = <<>>
            /\ ( /\ _fields # None
                 /\ \/ BadGroups(_fields, args.groups) # {}
                    \/ BadLimits(_fields, args.limits) # {} ) => sent = <<>>
            /\ exc \notin {"KeyError", "TypeError"} => sent = <<json>>
            /\ (sent # <<>> /\ ~http[Len(http)].ok) => exc = "TransportError")
    /\ [][(call' = "run" /\ exc' = "TransportError") => json' = json]_vars

\* run() passed validation, sent the working spec once, and the transport failed
C16_Witness ==
    /\ call = "run"
    /\ exc = "TransportError"
    /\ sent = <<json>>
    /\ json.groups # <<>>

\* C17: an operation that fetches makes one HTTP request when the first one
\* (urlopen) succeeds; requests.get is called only after urlopen failed, and
\* its failure is raised.
C17_OneRoundTrip ==
    http # <<>> =>
        /\ http[1].client = "urlopen"
        /\ http[1].ok => Len(http) = 1
        /\ \A i \in DOMAIN http : http[i].client = "requests.get" => ~http[1].ok
        /\ ~http[Len(http)].ok => exc = "TransportError"

\* C18: whenever a schema is cached it is the one the server reports for the
\* database of the working spec.
C18_SchemaOfSelectedDatabase ==
    (pc = "live" /\ _fields # None)
    => /\ "database" \in DOMAIN json
       /\ json.database # None
       /\ _fields = Some(ServerFields(json.database[1]))

-----------------------------------------------------------------------------
(* frame *)

nLanguages == <<"languages">>

\* the strings pd.to_numeric reads as a number (of the bucket values below)
ParseInt == ("5" :> 5)

\* pd.to_numeric on one value: a number stays, a string is parsed or refused
CanParse(v) == v.isnum \/ v.str \in DOMAIN ParseInt
to_numeric(v) == IF v.isnum THEN v ELSE NumVal(ParseInt[v.str])

\* blacklist, the values frame(drop_unknowns=True) takes for unknown
blacklist ==
    { "No place, unknown, or undetermined", "", " ", "Unknown", "unknown",
      "Unknown or not specified", "No attempt to code", "Undetermined", "|||",
      "???", "N/A", "und", "unk" }

\* mutant: a row is dropped for a value that only resembles a blacklisted one
drop_unknown_rows_resembling(df) ==
    LET Keep(rec) == \A k \in DOMAIN rec :
                         rec[k].isnum \/ rec[k].str \notin blacklist \cup {"Unk"}
    IN SelectSeq(df, Keep)

\* df[~df.T.isin(blacklist).any()]: the rows none of whose values is blacklisted
drop_unknown_rows(df) ==
    LET Keep(rec) == \A k \in DOMAIN rec : rec[k].isnum \/ rec[k].str \notin blacklist
    IN SelectSeq(df, Keep)

\* map_to_human_readable, of which the model keeps the facet languages and
\* three of its codes
map_to_human_readable ==
    Dict({ <<nLanguages, ("eng" :> "English" @@ "fre" :> "French"
                          @@ "und" :> "Undetermined")>> })

\* df.replace(replace_columns): in the columns named after a facet, a value
\* that is a code of the facet becomes its label
replace(df) ==
    [ i \in DOMAIN df |->
        [ k \in DOMAIN df[i] |->
            LET v == df[i][k]
            IN IF /\ k \in DOMAIN map_to_human_readable
                  /\ ~v.isnum
                  /\ v.str \in DOMAIN map_to_human_readable[k]
               THEN StrVal(map_to_human_readable[k][v.str])
               ELSE v ] ]

\* the rows of df in the orders sort_values(by, ascending=False) may leave
\* them in: descending by the columns of by, the first the most significant,
\* rows that tie in any order
RECURSIVE LexGE(_, _, _)
LexGE(r1, r2, by) ==
    \/ by = <<>>
    \/ r1[Head(by)].num > r2[Head(by)].num
    \/ r1[Head(by)].num = r2[Head(by)].num /\ LexGE(r1, r2, Tail(by))

sort_values(df, by) ==
    LET n == Len(df)
        perms == {p \in [1..n -> 1..n] : \A i, j \in 1..n : p[i] = p[j] => i = j}
    IN { [i \in 1..n |-> df[p[i]]] :
           p \in {q \in perms : \A i, j \in 1..n :
                                  i < j => LexGE(df[q[i]], df[q[j]], by)} }


\* the dtype loop of frame: the columns the dtypes call integer go through
\* pd.to_numeric (the schemas modelled hold no datetime field)
IntegerColumns(df, dtypes) ==
    {k \in DOMAIN dtypes : dtypes[k] = "integer" /\ \E i \in DOMAIN df : k \in DOMAIN df[i]}

CanCoerce(df, dtypes) ==
    \A i \in DOMAIN df, k \in IntegerColumns(df, dtypes) : CanParse(df[i][k])

coerce(df, dtypes) ==
    [ i \in DOMAIN df |->
        [ k \in DOMAIN df[i] |->
            IF k \in IntegerColumns(df, dtypes) THEN to_numeric(df[i][k]) ELSE df[i][k] ] ]

\* frame(index, drop_zeros, drop_unknowns), for records that all hold the same
\* distinct columns: the exception it raises, or the tables it may return (the
\* index columns, the other columns, and the rows as records over both)
frame(r, index, drop_zeros, drop_unknowns) ==
    LET t == tolist(r)
        df0 == coerce(t.recs, r.dtypes)
        df1 == replace(IF drop_unknowns THEN drop_unknown_rows(df0) ELSE df0)
        idx == IF Len(r.groups) > 0 /\ index THEN r.groups ELSE <<>>
        columns == IF idx # <<>> THEN r.counttype ELSE r.groups \o r.counttype
        NonZero(rec) == \E i \in DOMAIN columns :
                            ~rec[columns[i]].isnum \/ rec[columns[i]].num # 0
        df2 == IF drop_zeros THEN SelectSeq(df1, NonZero) ELSE df1
        Raise(e) == {[exc |-> e, index |-> <<>>, columns |-> <<>>, rows |-> <<>>]}
    IN IF t.exc # "none" THEN Raise(t.exc)
       ELSE IF t.recs = <<>> THEN Raise("KeyError")
       ELSE IF ~CanCoerce(t.recs, r.dtypes) THEN Raise("ValueError")
       ELSE { [exc |-> "none", index |-> idx, columns |-> columns, rows |-> rows] :
                  rows \in sort_values(df2, r.counttype) }

\* r.frame(index, drop_zeros, drop_unknowns)
do_frame(index, drop_zeros, drop_unknowns) ==
    /\ results # None
    /\ results[1].frame = None
    /\ \E table \in frame(results[1].obj, index, drop_zeros, drop_unknowns) :
           results' = Some([results[1] EXCEPT !.frame =
                               Some([ table |-> table, index |-> index,
                                      drop_zeros |-> drop_zeros,
                                      drop_unknowns |-> drop_unknowns ])])
    /\ call' = "frame"
    /\ UNCHANGED <<_globals, scopes, before, pc, json, endpoint, _fields, _dtypes,
                   _last_good, exc, msg, args, nSchemaReq, nSchemaOk, validated,
                   accepted_, _field_cache, sent, http, ret>>

\* the bucket values of the responses frame is studied on: a blacklisted
\* value, one that resembles it, a number, a language code
FrameBuckets == <<"unk", "Unk", "5", "und">>

\* the dicts of at most two keys of K, in the order of K, with values of S
DictsOf(K, S) ==
    {Obj(<<>>)}
    \cup {Obj(<< <<K[i], v>> >>) : i \in DOMAIN K, v \in S}
    \cup {Obj(<< <<K[p[1]], v[1]>>, <<K[p[2]], v[2]>> >>) :
             p \in {q \in (DOMAIN K) \X (DOMAIN K) : q[1] < q[2]}, v \in S \X S}

\* queries and responses of matching shape
FrameInputs ==
    {[data |-> d, groups |-> <<>>, counttype |-> ct] :
        <<ct, d>> \in UNION {{ct} \X Leaves(Len(ct)) : ct \in CounttypeValues}}
    \cup {[data |-> x[2], groups |-> g, counttype |-> x[1]] :
             x \in UNION {{ct} \X DictsOf(FrameBuckets, Leaves(Len(ct))) :
                              ct \in CounttypeValues},
             g \in {<<Star(nA)>>, <<nB>>, <<nLanguages>>}}
    \cup {[data |-> d, groups |-> <<Star(nA), nB>>, counttype |-> <<nTextCount>>] :
             d \in DictsOf(<<"a1", "unk">>, DictsOf(<<"5", "Unk">>, Leaves(1)))}

FrameDtypes == {Dict({}), Dtypes(ServerFields("db1"))}

NextFrame ==
    \/ \E inp \in FrameInputs, dtypes \in FrameDtypes :
           do_results(inp.data, inp.groups, inp.counttype, dtypes)
    \/ \E index \in BOOLEAN, drop_zeros \in BOOLEAN, drop_unknowns \in BOOLEAN :
           do_frame(index, drop_zeros, drop_unknowns)

SpecFrame == InitConfig /\ [][NextFrame]_vars

\* frame() has returned a table
FrameReturned ==
    results # None /\ results[1].frame # None /\ results[1].frame[1].table.exc = "none"

\* every count of the row is zero
AllZero(rec, counttype_) == \A i \in DOMAIN counttype_ : rec[counttype_[i]].num = 0

\* C12: with drop_zeros the table holds exactly the records in which not every
\* count is zero, whether index is true or false, and without it every record;
\* the rows are in descending order of the count types, the first the most
\* significant.  (The records are those left by the steps before.)
C12_DropZeros ==
    FrameReturned
    => LET r == results[1].obj
           fr == results[1].frame[1]
           rows == fr.table.rows
           df0 == coerce(tolist(r).recs, r.dtypes)
           before_ == replace(IF fr.drop_unknowns THEN drop_unknown_rows(df0) ELSE df0)
           expected == IF fr.drop_zeros
                       THEN {rec \in Range(before_) : ~AllZero(rec, r.counttype)}
                       ELSE Range(before_)
       IN /\ Range(rows) = expected
          /\ Len(rows) = Cardinality(expected)
          /\ \A i, j \in DOMAIN rows : i < j => LexGE(rows[i], rows[j], r.counttype)

\* a value of the row is one of the blacklisted strings
Unknown(rec) == \E k \in DOMAIN rec : ~rec[k].isnum /\ rec[k].str \in blacklist

\* C13: with drop_unknowns a row is removed exactly when one of its values is
\* one of the 13 blacklisted strings (a row this step keeps is in the table
\* unless drop_zeros removes it); a value that only resembles a blacklisted
\* one removes nothing, and without drop_unknowns this step removes no row.
C13_DropUnknowns ==
    FrameReturned
    => LET r == results[1].obj
           fr == results[1].frame[1]
           rows == fr.table.rows
           df0 == coerce(tolist(r).recs, r.dtypes)
       IN \A i \in DOMAIN df0 :
              LET InTable == replace(<<df0[i]>>)[1] \in Range(rows)
              IN IF fr.drop_unknowns /\ Unknown(df0[i])
                 THEN ~InTable
                 ELSE InTable \/ (fr.drop_zeros /\ AllZero(df0[i], r.counttype))

\* drop_unknowns removed the row of 'unk' and kept the row of 'Unk'
C13_Witness ==
    /\ FrameReturned
    /\ results[1].frame[1].drop_unknowns
    /\ ~results[1].frame[1].drop_zeros
    /\ \E i \in DOMAIN tolist(results[1].obj).recs :
           Unknown(tolist(results[1].obj).recs[i])
    /\ \E i \in DOMAIN results[1].frame[1].table.rows :
           \E k \in DOMAIN results[1].frame[1].table.rows[i] :
               results[1].frame[1].table.rows[i][k] = StrVal("Unk")

-----------------------------------------------------------------------------
(* field_values and limited_field_values *)

\* a number as jsonlib.dumps writes it, and as the server reads it back
NumStr == (1 :> "1" @@ 2 :> "2" @@ 3 :> "3")
StrNum == ("1" :> 1 @@ "2" :> 2 @@ "3" :> 3 @@ "5" :> 5)

\* the values the server holds of each field: the value, its id, and the
\* number of texts it occurs in
Corpus ==
    Dict({ <<nA, << [value |-> "a1", id |-> 1, count |-> 1],
                    [value |-> "a2", id |-> 2, count |-> 2] >> >>,
           <<nB, << [value |-> "5", id |-> 1, count |-> 1] >> >> })

\* the field a group name stands for
BaseField(g) ==
    LET n == lstrip(g)
    IN IF Len(n) > 1 /\ n[Len(n)] = "__id" THEN SubSeq(n, 1, Len(n) - 1) ELSE n

\* the values of a field that pass the search limits: ids below the bound of
\* a $lt constraint on field__id; with a word constraint, the value of id 1
Matching(f, limits) ==
    LET bound == IF Id(f) \in DOMAIN limits /\ limits[Id(f)].t = "cmp"
                 THEN StrNum[limits[Id(f)].v[2]] ELSE 5
        Pass(x) == x.id < bound /\ (nWord \in DOMAIN limits => x.id = 1)
    IN SelectSeq(Corpus[f], Pass)

\* the data the server answers a query with: a level of buckets per group, in
\* the order of the ids, above the counts of the innermost value
RECURSIVE ServerBuckets(_, _, _, _)
ServerBuckets(groups_, limits, counttype_, n) ==
    IF groups_ = <<>> THEN List([i \in DOMAIN counttype_ |-> n])
    ELSE LET m == Matching(BaseField(Head(groups_)), limits)
         IN Obj([ i \in DOMAIN m |->
                    << m[i].value,
                       ServerBuckets(Tail(groups_), limits, counttype_, m[i].count) >> ])

\* json_response, for a query whose groups are a list
ServerData(q) ==
    Obj(<< <<"data", ServerBuckets(q.groups, q.search_limits, q.counttype, 3)>> >>)

\* BWResults.__init__ for a query whose groups is a bare string
BWResults_str(res, query, dtypes) ==
    BWResults(res, [query EXCEPT !.groups = <<query.groups>>], dtypes)

\* BWResults(...).dataframe().sort_values('TextCount', ascending=False)
\* .index.tolist(): the exception raised, or the lists it may return; an
\* entry holds the index values of a row (one per group)
IndexValues(r) ==
    { IF table.exc # "none" THEN [exc |-> table.exc, values |-> <<>>]
      ELSE [ exc |-> "none",
             values |-> [ i \in DOMAIN rows |->
                            [ g \in DOMAIN table.index |-> rows[i][table.index[g]].str ] ] ] :
        <<table, rows>> \in UNION { {table} \X sort_values(table.rows, <<nTextCount>>) :
                                       table \in frame(r, TRUE, FALSE, FALSE) } }


\* field_values(field, max): the outcomes it may have -- the exception raised,
\* the cache it leaves, the list it returns, the query and HTTP requests sent
field_values(j, cache, field, max, net) ==
    IF field \in DOMAIN cache
    THEN { [ exc |-> "none", cache |-> cache, ret |-> Some(cache[field]),
             sent |-> <<>>, http |-> <<>> ] }
    ELSE LET q0 == SetKey(default, "database", j.database)
             lt == [t |-> "cmp", v |-> <<"$lt", NumStr[max[1] + 1]>>]
             q == IF max # None
                  THEN SetKey(SetKey(q0, "search_limits", Dict({<<Id(field), lt>>})),
                              "groups", Star(field))
                  ELSE SetKey(q0, "groups", field)
             f == _fetch(net)
             json_response == ServerData([q EXCEPT !.groups = <<q.groups>>])
             r == BWResults_str(json_response, q, Dict({}))
         IN IF f.exc # "none"
            THEN { [ exc |-> f.exc, cache |-> cache, ret |-> None,
                     sent |-> <<q>>, http |-> f.http ] }
            ELSE { IF iv.exc # "none"
                   THEN [ exc |-> iv.exc, cache |-> cache, ret |-> None,
                          sent |-> <<q>>, http |-> f.http ]
                   ELSE [ exc |-> "none", cache |-> SetKey(cache, field, iv.values),
                          ret |-> Some(iv.values), sent |-> <<q>>, http |-> f.http ] :
                     iv \in IndexValues(r) }

\* the query limited_field_values(field) builds from self.json
LimitedQuery(j, field) ==
    LET limits == [k \in DOMAIN j.search_limits \ {nWord} |-> j.search_limits[k]]
    IN [j EXCEPT !.search_limits = limits, !.groups = j.groups \o <<field>>]

\* limited_field_values(field), which ends without a return statement
limited_field_values(j, cache, field, net) ==
    LET q == LimitedQuery(j, field)
        f == _fetch(net)
        r == BWResults(ServerData(q), q, Dict({}))
    IN IF f.exc # "none"
       THEN { [ exc |-> f.exc, cache |-> cache, ret |-> None,
                sent |-> <<q>>, http |-> f.http ] }
       ELSE { IF iv.exc # "none"
              THEN [ exc |-> iv.exc, cache |-> cache, ret |-> None,
                     sent |-> <<q>>, http |-> f.http ]
              ELSE [ exc |-> "none", cache |-> SetKey(cache, field, iv.values),
                     ret |-> None, sent |-> <<q>>, http |-> f.http ] :
                iv \in IndexValues(r) }

\* q.field_values(field, max)
do_field_values(field, max, net) ==
    /\ pc = "live"
    /\ \E o \in field_values(json, _field_cache, field, max, net) :
           /\ _field_cache' = o.cache
           /\ exc' = o.exc
           /\ ret' = o.ret
           /\ sent' = o.sent
           /\ http' = o.http
    /\ call' = "field_values"
    /\ msg' = {}
    /\ args' = [NoArgs EXCEPT !.field = Some(field), !.max = max]
    /\ UNCHANGED <<_globals, scopes, before, results, pc, json, endpoint, _fields,
                   _dtypes, _last_good, nSchemaReq, nSchemaOk, validated, accepted_>>

\* q.limited_field_values(field)
do_limited_field_values(field, net) ==
    /\ pc = "live"
    /\ \E o \in limited_field_values(json, _field_cache, field, net) :
           /\ _field_cache' = o.cache
           /\ exc' = o.exc
           /\ ret' = o.ret
           /\ sent' = o.sent
           /\ http' = o.http
    /\ call' = "limited_field_values"
    /\ msg' = {}
    /\ args' = [NoArgs EXCEPT !.field = Some(field)]
    /\ UNCHANGED <<_globals, scopes, before, results, pc, json, endpoint, _fields,
                   _dtypes, _last_good, nSchemaReq, nSchemaOk, validated, accepted_>>

\* the groups and the limits the instance is given before its values are asked for
ValueGroups == { <<>>, <<Star(nB)>> }
ValueLimits == { Dict({}), Dict({<<nWord, cList>>}), Dict({<<Id(nA), cCmp>>, <<nWord, cList>>}) }
ValueMax == { None, Some(1), Some(2) }

NextValues ==
    \/ /\ pc = "new"
       /\ \E net \in Nets : do_init(None, None, Some("db1"), FALSE, net)
    \/ \E value \in ValueGroups : do_set_groups(value)
    \/ \E value \in ValueLimits : do_set_search_limits(value)
    \/ \E field \in {nA, nB}, max \in ValueMax, net \in Nets :
           do_field_values(field, max, net)
    \/ \E net \in Nets : do_limited_field_values(nA, net)

SpecValues == Init /\ [][NextValues]_vars

\* C14: whatever field_values and limited_field_values calls went before,
\* field_values(field, max) returns the values of the field its arguments
\* describe (those of id below max + 1, all of them without max), most
\* frequent first.
C14_FieldValuesByArguments ==
    (call = "field_values" /\ exc = "none")
    => LET field == args.field[1]
           wanted == {x \in Range(Corpus[field]) :
                         args.max # None => x.id < args.max[1] + 1}
           CountOf(v) == (CHOOSE x \in Range(Corpus[field]) : x.value = v).count
       IN /\ ret # None
          /\ \A i \in DOMAIN ret[1] : Len(ret[1][i]) = 1
          /\ {ret[1][i][1] : i \in DOMAIN ret[1]} = {x.value : x \in wanted}
          /\ Len(ret[1]) = Cardinality(wanted)
          /\ \A i, k \in DOMAIN ret[1] :
                 i < k => CountOf(ret[1][i][1]) >= CountOf(ret[1][k][1])

\* C15: limited_field_values(field) sends the working spec with the word
\* constraint removed and field appended to the groups, and returns the
\* ordered values of the answer.
C15_LimitedReturnsValues ==
    (call = "limited_field_values" /\ exc = "none")
    => LET q == LimitedQuery(json, args.field[1])
       IN /\ sent = <<q>>
          /\ ret # None
          /\ ret[1] \in {iv.values : iv \in IndexValues(BWResults(ServerData(q), q, Dict({})))}

====
